---- MODULE Spec2Model ----
(***************************************************************************)
(* NAT66 inside-to-outside translation node (nat66_in2out.c).              *)
(*                                                                         *)
(* A 64-bit word (ip_csum_t / as_u64[i]) is a tuple of four 16-bit lanes,  *)
(* least significant lane first, so that the arithmetic keeps its width.   *)
(* An IPv6 address is the pair <<as_u64[0], as_u64[1]>>.                   *)
(***************************************************************************)
EXTENDS Integers, Sequences, FiniteSets, TLC

VARIABLES
    nm,               \* nat66_main: interfaces, sm, outside_fib_index
    fib,              \* FIB service: tables, entries, per-interface table index
    buffers,          \* vlib buffers, by buffer index
    orig,             \* the buffers as they were handed to the node
    th,               \* per worker thread: position and locals of the node function
    next_frames,      \* per thread and next node: the buffer indices enqueued
    session_counters, \* nm->session_counters, by thread slot and mapping index
    node_counters,    \* per thread error counters of the node
    traces,           \* per thread trace records
    trail,            \* per buffer: the steps performed on it
    probe             \* input and result of a single application of a helper

vars == <<nm, fib, buffers, orig, th, next_frames, session_counters,
          node_counters, traces, trail, probe>>

-----------------------------------------------------------------------------
(* Bounds of the model *)

MaxFrame == 2
MaxFrameMT == 2

-----------------------------------------------------------------------------
(* 16-bit lanes and 64-bit words *)

LaneMod == 65536

U64Zero == <<0, 0, 0, 0>>

U64FromU16(c) == <<c, 0, 0, 0>>

\* a + b mod 2^64
U64Add(a, b) ==
    LET s0 == a[1] + b[1]
        s1 == a[2] + b[2] + (s0 \div LaneMod)
        s2 == a[3] + b[3] + (s1 \div LaneMod)
        s3 == a[4] + b[4] + (s2 \div LaneMod)
    IN  <<s0 % LaneMod, s1 % LaneMod, s2 % LaneMod, s3 % LaneMod>>

U64Not(a) == [i \in 1..4 |-> (LaneMod - 1) - a[i]]

\* a - b mod 2^64
U64Sub(a, b) == U64Add(U64Add(a, U64Not(b)), <<1, 0, 0, 0>>)

\* a < b, unsigned
U64Lt(a, b) ==
    \/ a[4] < b[4]
    \/ a[4] = b[4] /\ a[3] < b[3]
    \/ a[4] = b[4] /\ a[3] = b[3] /\ a[2] < b[2]
    \/ a[4] = b[4] /\ a[3] = b[3] /\ a[2] = b[2] /\ a[1] < b[1]

U64 == [1..4 -> 0..(LaneMod - 1)]

ip_csum_with_carry[sum \in U64, x \in U64] ==
    LET t == U64Add(sum, x)
    IN  IF U64Lt(t, x) THEN U64Add(t, <<1, 0, 0, 0>>) ELSE t

\* checksum of the data with a field changed from 0 to x
ip_csum_sub_even[c \in U64, x \in U64] == ip_csum_with_carry[c, x]

\* checksum of the data with a field changed from x to 0
ip_csum_add_even[c \in U64, x \in U64] ==
    LET d == U64Sub(c, x)
    IN  IF U64Lt(c, d) THEN U64Sub(d, <<1, 0, 0, 0>>) ELSE d

\* reduce to 16 bits
ip_csum_fold[c \in U64] ==
    LET lo == c[1] + c[3]
        hi == c[2] + c[4]
        c2 == (lo % LaneMod) + hi + (lo \div LaneMod)
        c3 == (c2 % LaneMod) + (c2 \div LaneMod)
        c4 == (c3 % LaneMod) + (c3 \div LaneMod)
    IN  c4 % LaneMod

-----------------------------------------------------------------------------
(* Program constants *)

FIB_NODE_INDEX_INVALID == -1
SW_IF_INDEX_NONE == -1
NO_MAPPING == -1

IP_PROTOCOL_TCP == 6
IP_PROTOCOL_UDP == 17
IP_PROTOCOL_ICMP6 == 58

NAT66_IN2OUT_NEXT_IP6_LOOKUP == 0
NAT66_IN2OUT_NEXT_DROP == 1
NextNodes == {NAT66_IN2OUT_NEXT_IP6_LOOKUP, NAT66_IN2OUT_NEXT_DROP}

ErrorSyms == {"IN2OUT_PACKETS", "NO_TRANSLATION", "UNKNOWN"}

-----------------------------------------------------------------------------
(* Collaborators of the node: header parser, FIB, mapping table *)

\* ip6_parse: 0 and the transport protocol, or an error for a malformed chain
ip6_parse(b) ==
    IF b.malformed
    THEN [rv |-> 1, l4_protocol |-> 0]
    ELSE [rv |-> 0, l4_protocol |-> b.protocol]

fib_table_get_index_for_sw_if_index(sw_if_index) == fib.if_fib[sw_if_index]

fib_table_lookup(fib_index, addr) ==
    IF fib_index \in DOMAIN fib.tables /\ addr \in DOMAIN fib.tables[fib_index]
    THEN fib.tables[fib_index][addr]
    ELSE FIB_NODE_INDEX_INVALID

fib_entry_get_resolving_interface(fei) == fib.entries[fei]

nat_interface_is_outside(i) == "IS_OUTSIDE" \in i.flags

\* nat66_static_mapping_get (addr, fib_index, is_local = 1): index or NO_MAPPING
nat66_static_mapping_get(addr, fib_index) ==
    LET hits == {k \in DOMAIN nm.sm :
                    nm.sm[k].l_addr = addr /\ nm.sm[k].fib_index = fib_index}
    IN  IF hits = {} THEN NO_MAPPING ELSE CHOOSE k \in hits : TRUE

-----------------------------------------------------------------------------
(* nat66_not_translate: the result, and the tables it consulted in order *)

\* faulty variant: any registered interface counts, whatever its role
InterfaceMatchAnyRole(sw_if_index) ==
    \E i \in nm.interfaces : sw_if_index = i.sw_if_index

InterfaceMatch(sw_if_index) ==
    \E i \in nm.interfaces :
        nat_interface_is_outside(i) /\ sw_if_index = i.sw_if_index

\* faulty variant: the outside table is consulted for every route
FallbackAlways(sw_if_index) == TRUE

FallbackNeeded(sw_if_index) == sw_if_index = SW_IF_INDEX_NONE

nat66_not_translate(rx_fib_index, ip6_addr) ==
    LET fei == fib_table_lookup(rx_fib_index, ip6_addr)
    IN  IF fei = FIB_NODE_INDEX_INVALID
        THEN [ret |-> 1, lookups |-> <<rx_fib_index>>]
        ELSE
          LET sw_if_index == fib_entry_get_resolving_interface(fei)
          IN  IF FallbackNeeded(sw_if_index)
              THEN
                LET fei2 == fib_table_lookup(nm.outside_fib_index, ip6_addr)
                    lk == <<rx_fib_index, nm.outside_fib_index>>
                IN  IF fei2 = FIB_NODE_INDEX_INVALID
                    THEN [ret |-> 1, lookups |-> lk]
                    ELSE [ret |-> IF InterfaceMatch(
                                       fib_entry_get_resolving_interface(fei2))
                                  THEN 0 ELSE 1,
                          lookups |-> lk]
              ELSE [ret |-> IF InterfaceMatch(sw_if_index) THEN 0 ELSE 1,
                    lookups |-> <<rx_fib_index>>]

-----------------------------------------------------------------------------
(* Checksum and address rewrite of one packet *)

\* faulty variant: every other protocol is handled as UDP
ChecksumWordAlways(l4_protocol0) ==
    IF l4_protocol0 = IP_PROTOCOL_TCP THEN 9
    ELSE IF l4_protocol0 = IP_PROTOCOL_ICMP6 THEN 2
    ELSE 4

\* index of the checksum word in the transport header, 0 when there is none
ChecksumWord(l4_protocol0) ==
    IF l4_protocol0 = IP_PROTOCOL_UDP THEN 4
    ELSE IF l4_protocol0 = IP_PROTOCOL_TCP THEN 9
    ELSE IF l4_protocol0 = IP_PROTOCOL_ICMP6 THEN 2
    ELSE 0

\* faulty variant: the first half of the new address is added twice
CsumRewriteSameHalf(checksum0, src_address, e_addr) ==
    LET c1 == ip_csum_sub_even[U64FromU16(checksum0), src_address[1]]
        c2 == ip_csum_sub_even[c1, src_address[2]]
        c3 == ip_csum_add_even[c2, e_addr[1]]
        c4 == ip_csum_add_even[c3, e_addr[1]]
    IN  ip_csum_fold[c4]

\* lines 199-203
CsumRewrite(checksum0, src_address, e_addr) ==
    LET c1 == ip_csum_sub_even[U64FromU16(checksum0), src_address[1]]
        c2 == ip_csum_sub_even[c1, src_address[2]]
        c3 == ip_csum_add_even[c2, e_addr[1]]
        c4 == ip_csum_add_even[c3, e_addr[2]]
    IN  ip_csum_fold[c4]

\* lines 181-203 on buffer b with mapping sm0
PacketCsum(b, l4_protocol0, sm0) ==
    LET w == ChecksumWord(l4_protocol0)
    IN  IF w = 0 THEN b
        ELSE [b EXCEPT !.l4[w] = CsumRewrite(b.l4[w], b.src_address, sm0.e_addr)]

\* faulty variant: only the first half of the address is written
PacketAddrHalf(b, sm0) ==
    [b EXCEPT !.src_address = <<sm0.e_addr[1], b.src_address[2]>>]

\* lines 206-207
PacketAddr(b, sm0) ==
    [b EXCEPT !.src_address = <<sm0.e_addr[1], sm0.e_addr[2]>>]

-----------------------------------------------------------------------------
(* Input domains *)

AllOnes == <<65535, 65535, 65535, 65535>>

\* 64-bit halves around the carry and borrow boundaries
U64Samples ==
    { U64Zero, <<1, 0, 0, 0>>, <<0, 1, 0, 0>>, <<65535, 0, 0, 0>>,
      <<1, 65535, 65535, 65535>>, AllOnes }

CsumSamples == {0, 1, 2, 4660, 32768, 65534, 65535}

L4Base == <<1024, 53, 20, 0, 7, 8, 9, 10, 0>>

DstOut == <<<<8193, 3512, 0, 0>>, <<0, 0, 0, 1>>>>

Packet(malformed, protocol, src, dst, csum, rx, len, traced) ==
    [ malformed |-> malformed, protocol |-> protocol,
      src_address |-> src, dst_address |-> dst,
      l4 |-> IF ChecksumWord(protocol) = 0 THEN L4Base
             ELSE [L4Base EXCEPT ![ChecksumWord(protocol)] = csum],
      sw_if_index_rx |-> rx, length |-> len, traced |-> traced,
      error |-> "NONE" ]

-----------------------------------------------------------------------------
(* One's-complement checksum of a packet, summed from scratch *)

OnesAdd(a, b) == LET s == a + b IN (s % LaneMod) + (s \div LaneMod)

RECURSIVE OnesSum(_)
OnesSum(ws) == IF ws = <<>> THEN 0 ELSE OnesAdd(ws[1], OnesSum(Tail(ws)))

\* pseudo-header and transport segment, the checksum field taken as zero
CoveredWords(b) ==
    b.src_address[1] \o b.src_address[2] \o b.dst_address[1] \o b.dst_address[2]
    \o <<b.length, b.protocol>>
    \o [b.l4 EXCEPT ![ChecksumWord(b.protocol)] = 0]

\* the checksum a sender computes; UDP sends a computed zero as all ones
FromScratch(b) ==
    LET c == (LaneMod - 1) - OnesSum(CoveredWords(b))
    IN  IF b.protocol = IP_PROTOCOL_UDP /\ c = 0 THEN LaneMod - 1 ELSE c

StoredChecksum(b) == b.l4[ChecksumWord(b.protocol)]

\* the receiver's check: everything summed with the stored checksum is all ones
Verifies(b) == OnesAdd(OnesSum(CoveredWords(b)), StoredChecksum(b)) = LaneMod - 1

-----------------------------------------------------------------------------
(* Specification of the rewrite alone: one packet, one mapping *)

NoThreads == [t \in {} |-> 0]
EmptyNm == [interfaces |-> {}, sm |-> <<>>, outside_fib_index |-> 0]
EmptyFib == [tables |-> <<>>, entries |-> <<>>, if_fib |-> <<>>]

InitIdle ==
    /\ buffers = <<>> /\ orig = <<>> /\ th = NoThreads
    /\ next_frames = NoThreads /\ session_counters = NoThreads
    /\ node_counters = NoThreads /\ traces = NoThreads /\ trail = <<>>

\* b with its first transport word chosen so that the stored checksum verifies
Fit(b) ==
    LET z == [b EXCEPT !.l4[1] = 0]
        need == ((3 * (LaneMod - 1)) - OnesSum(CoveredWords(z)) - StoredChecksum(z))
                  % (LaneMod - 1)
    IN  [z EXCEPT !.l4[1] = need]

RewriteProbe(p, o, e, c) ==
    LET b0 == Fit(Packet(FALSE, p, o, DstOut, c, 1, 60, FALSE))
    IN  [ kind |-> "rewrite", before |-> b0,
          sm0 |-> [l_addr |-> o, e_addr |-> e, fib_index |-> 0],
          after |-> b0, applied |-> FALSE ]

\* halves whose lanes are all at an end of the 16-bit range
U64Ends == [1..4 -> {0, 1, 65535}]

CsumEnds == (0..7) \cup (65528..65535) \cup {255, 256, 32767, 32768}

InitCsum ==
    /\ InitIdle
    /\ nm = EmptyNm /\ fib = EmptyFib
    /\ \E p \in {IP_PROTOCOL_TCP, IP_PROTOCOL_UDP, IP_PROTOCOL_ICMP6} :
         \/ \E o0 \in U64Samples, o1 \in U64Samples :
            \E e0 \in U64Samples, e1 \in U64Samples :
            \E c \in CsumSamples :
              probe = RewriteProbe(p, <<o0, o1>>, <<e0, e1>>, c)
         \/ \E o0 \in U64Ends, o1 \in U64Samples :
            \E c \in CsumEnds :
              probe = RewriteProbe(p, <<o0, o1>>, <<o0, o1>>, c)

ProbeRewrite ==
    /\ probe.kind = "rewrite" /\ ~probe.applied
    /\ probe' = [probe EXCEPT
                   !.after = PacketAddr(
                               PacketCsum(probe.before,
                                          ip6_parse(probe.before).l4_protocol,
                                          probe.sm0),
                               probe.sm0),
                   !.applied = TRUE]
    /\ UNCHANGED <<nm, fib, buffers, orig, th, next_frames, session_counters,
                   node_counters, traces, trail>>

NextCsum == ProbeRewrite

SpecCsum == InitCsum /\ [][NextCsum]_vars

-----------------------------------------------------------------------------
(* Configuration used for the batch runs *)

SrcA == <<<<8193, 3512, 1, 0>>, <<0, 0, 0, 10>>>>
SrcB == <<<<8193, 3512, 1, 0>>, <<65535, 65535, 65535, 65535>>>>
SrcC == <<<<8193, 3512, 2, 0>>, <<0, 0, 0, 12>>>>
SrcU == <<<<8193, 3512, 1, 0>>, <<0, 0, 0, 99>>>>
ExtA == <<<<8193, 3512, 65535, 0>>, <<0, 0, 0, 1>>>>
ExtB == <<<<9216, 0, 0, 0>>, <<1, 0, 0, 0>>>>
ExtC == <<<<9216, 0, 0, 0>>, <<2, 0, 0, 0>>>>

DstIn == <<<<8193, 3512, 1, 0>>, <<0, 0, 0, 77>>>>
DstInd == <<<<8193, 3512, 3, 0>>, <<0, 0, 0, 1>>>>
DstInd2 == <<<<8193, 3512, 4, 0>>, <<0, 0, 0, 1>>>>
DstUnreg == <<<<8193, 3512, 5, 0>>, <<0, 0, 0, 1>>>>
DstNone == <<<<8193, 3512, 6, 0>>, <<0, 0, 0, 1>>>>

MainNm ==
    [ interfaces |-> { [sw_if_index |-> 1, flags |-> {"IS_INSIDE"}],
                       [sw_if_index |-> 2, flags |-> {"IS_OUTSIDE"}],
                       [sw_if_index |-> 4, flags |-> {"IS_INSIDE", "IS_OUTSIDE"}] },
      sm |-> [k \in 0..2 |->
                IF k = 0 THEN [l_addr |-> SrcA, e_addr |-> ExtA, fib_index |-> 0]
                ELSE IF k = 1 THEN [l_addr |-> SrcB, e_addr |-> ExtB, fib_index |-> 0]
                ELSE [l_addr |-> SrcC, e_addr |-> ExtC, fib_index |-> 1]],
      outside_fib_index |-> 1 ]

MainFib ==
    [ tables |-> [f \in 0..1 |->
                    IF f = 0
                    THEN (DstOut :> 1) @@ (DstIn :> 2) @@ (DstInd :> 3)
                         @@ (DstInd2 :> 3) @@ (DstUnreg :> 4)
                    ELSE (DstInd :> 1) @@ (DstIn :> 2)],
      entries |-> (1 :> 2) @@ (2 :> 1) @@ (3 :> SW_IF_INDEX_NONE) @@ (4 :> 3),
      if_fib |-> (1 :> 0) @@ (2 :> 1) @@ (3 :> 0) @@ (4 :> 0) ]

MainPackets ==
    { Fit(Packet(FALSE, IP_PROTOCOL_UDP, SrcA, DstOut, 4660, 1, 60, TRUE)),
      Fit(Packet(FALSE, IP_PROTOCOL_TCP, SrcA, DstOut, 1, 1, 1500, FALSE)),
      Fit(Packet(FALSE, IP_PROTOCOL_ICMP6, SrcA, DstOut, 65534, 1, 104, FALSE)),
      Packet(FALSE, 50, SrcA, DstOut, 0, 1, 88, TRUE),
      Fit(Packet(FALSE, IP_PROTOCOL_UDP, SrcB, DstInd, 65535, 1, 72, FALSE)),
      Fit(Packet(FALSE, IP_PROTOCOL_TCP, SrcU, DstOut, 7, 1, 61, FALSE)),
      Fit(Packet(FALSE, IP_PROTOCOL_UDP, SrcC, DstOut, 8, 1, 62, TRUE)),
      Fit(Packet(FALSE, IP_PROTOCOL_UDP, SrcA, DstIn, 9, 1, 63, FALSE)),
      Fit(Packet(FALSE, IP_PROTOCOL_TCP, SrcA, DstNone, 10, 1, 64, TRUE)),
      Fit(Packet(FALSE, IP_PROTOCOL_ICMP6, SrcA, DstInd2, 11, 1, 65, FALSE)),
      Packet(FALSE, 50, SrcB, DstUnreg, 0, 1, 66, FALSE),
      Packet(TRUE, IP_PROTOCOL_UDP, SrcA, DstOut, 12, 1, 40, TRUE),
      Packet(TRUE, IP_PROTOCOL_TCP, SrcU, DstNone, 13, 1, 41, FALSE) }

MTPackets ==
    { Fit(Packet(FALSE, IP_PROTOCOL_UDP, SrcA, DstOut, 4660, 1, 60, TRUE)),
      Fit(Packet(FALSE, IP_PROTOCOL_TCP, SrcA, DstOut, 1, 1, 1500, FALSE)),
      Packet(TRUE, IP_PROTOCOL_UDP, SrcA, DstOut, 12, 1, 40, TRUE) }

-----------------------------------------------------------------------------
(* State of the node function on each worker thread *)

Workers == DOMAIN th

ThreadInit(t, from, node_trace) ==
    [ pc |-> "loop", thread_index |-> t, node_trace |-> node_trace,
      frame |-> from, from |-> from,
      next_index |-> NAT66_IN2OUT_NEXT_IP6_LOOKUP,
      bi0 |-> 0, next0 |-> NAT66_IN2OUT_NEXT_IP6_LOOKUP,
      l4_protocol0 |-> 0, fib_index0 |-> 0, sm0 |-> NO_MAPPING,
      pkts_processed |-> 0,
      ctr |-> [packets |-> 0, bytes |-> 0],
      touched |-> {} ]

ZeroCounters == [k \in DOMAIN nm.sm |-> [packets |-> 0, bytes |-> 0]]

InitRun(W) ==
    /\ orig = buffers
    /\ trail = [bi \in DOMAIN buffers |-> <<>>]
    /\ next_frames = [t \in W |-> [n \in NextNodes |-> <<>>]]
    /\ session_counters = [t \in W |-> ZeroCounters]
    /\ node_counters = [t \in W |-> [e \in ErrorSyms |-> 0]]
    /\ traces = [t \in W |-> <<>>]
    /\ probe = [kind |-> "none"]

\* one worker, one frame of 1..MaxFrame packets
Init ==
    /\ nm = MainNm /\ fib = MainFib
    /\ \E n \in 1..MaxFrame :
         /\ buffers \in [1..n -> MainPackets]
         /\ \E tr \in BOOLEAN : th = [t \in {0} |-> ThreadInit(t, [i \in 1..n |-> i], tr)]
    /\ InitRun({0})

\* two workers, each with its own frame of 1..MaxFrameMT packets
InitMT ==
    /\ nm = MainNm /\ fib = MainFib
    /\ \E n0 \in 1..MaxFrameMT, n1 \in 1..MaxFrameMT :
         /\ buffers \in [1..(n0 + n1) -> MTPackets]
         /\ th = [t \in {0, 1} |->
                    ThreadInit(t, IF t = 0 THEN [i \in 1..n0 |-> i]
                                  ELSE [i \in 1..n1 |-> n0 + i], TRUE)]
    /\ InitRun({0, 1})

-----------------------------------------------------------------------------
(* nat66_in2out_node, one step at a time *)

Step(bi, name) == [trail EXCEPT ![bi] = Append(@, name)]

vlib_buffer_length_in_chain(b) == b.length

\* faulty variant: every worker counts in slot 0
CounterSlotZero(t) == 0

\* the counter slot a worker uses: its own thread index
CounterSlot(t) == th[t].thread_index

\* faulty variant: the loop advances by two buffers
DequeueTwo(from) ==
    [bi0 |-> Head(from), from |-> IF Len(from) > 1 THEN Tail(Tail(from)) ELSE <<>>]

\* lines 147-151: bi0 = from[0]; from += 1; n_left_from -= 1
Dequeue(from) == [bi0 |-> Head(from), from |-> Tail(from)]

\* faulty variant: the parse result is ignored
ParseNeverFails(rv) == FALSE

\* lines 157-160: the condition of the drop branch
ParseFailed(rv) == rv # 0

\* lines 146-165: take the next buffer, enqueue it speculatively, parse it
ParsePacket(t) ==
    /\ th[t].pc = "loop" /\ th[t].from # <<>>
    /\ LET bi == Dequeue(th[t].from).bi0
           p == ip6_parse(buffers[bi])
       IN  /\ next_frames' = [next_frames EXCEPT ![t][th[t].next_index] = Append(@, bi)]
           /\ IF ParseFailed(p.rv)
              THEN /\ buffers' = [buffers EXCEPT ![bi].error = "UNKNOWN"]
                   /\ th' = [th EXCEPT ![t].from = Dequeue(@).from, ![t].bi0 = bi,
                                        ![t].sm0 = NO_MAPPING,
                                        ![t].next0 = NAT66_IN2OUT_NEXT_DROP,
                                        ![t].pc = "trace0"]
              ELSE /\ buffers' = buffers
                   /\ th' = [th EXCEPT ![t].from = Dequeue(@).from, ![t].bi0 = bi,
                                        ![t].sm0 = NO_MAPPING,
                                        ![t].next0 = NAT66_IN2OUT_NEXT_IP6_LOOKUP,
                                        ![t].l4_protocol0 = p.l4_protocol,
                                        ![t].pc = "classify"]
           /\ trail' = Step(bi, "parse")
    /\ UNCHANGED <<nm, fib, orig, session_counters, node_counters, traces, probe>>

\* lines 167-173
Classify(t) ==
    /\ th[t].pc = "classify"
    /\ LET b == buffers[th[t].bi0]
           fib_index0 == fib_table_get_index_for_sw_if_index(b.sw_if_index_rx)
       IN  th' = [th EXCEPT ![t].fib_index0 = fib_index0,
                            ![t].pc = IF nat66_not_translate(fib_index0,
                                                             b.dst_address).ret # 0
                                      THEN "trace0" ELSE "lookup"]
    /\ trail' = Step(th[t].bi0, "classify")
    /\ UNCHANGED <<nm, fib, buffers, orig, next_frames, session_counters,
                   node_counters, traces, probe>>

\* lines 175-179
Lookup(t) ==
    /\ th[t].pc = "lookup"
    /\ LET sm0 == nat66_static_mapping_get(buffers[th[t].bi0].src_address,
                                           th[t].fib_index0)
       IN  th' = [th EXCEPT ![t].sm0 = sm0,
                            ![t].pc = IF sm0 = NO_MAPPING THEN "trace0" ELSE "rewrite"]
    /\ trail' = Step(th[t].bi0, "lookup")
    /\ UNCHANGED <<nm, fib, buffers, orig, next_frames, session_counters,
                   node_counters, traces, probe>>

\* lines 181-207
Rewrite(t) ==
    /\ th[t].pc = "rewrite"
    /\ LET bi == th[t].bi0
           sm0 == nm.sm[th[t].sm0]
       IN  /\ buffers' = [buffers EXCEPT
                            ![bi] = PacketAddr(PacketCsum(@, th[t].l4_protocol0, sm0),
                                               sm0)]
           /\ trail' = [trail EXCEPT
                          ![bi] = IF ChecksumWord(th[t].l4_protocol0) = 0
                                  THEN Append(@, "addr")
                                  ELSE Append(Append(@, "csum"), "addr")]
    /\ th' = [th EXCEPT ![t].pc = "count"]
    /\ UNCHANGED <<nm, fib, orig, next_frames, session_counters, node_counters,
                   traces, probe>>

\* lines 209-212, vlib_increment_combined_counter: read of the slot
CounterLoad(t) ==
    /\ th[t].pc = "count"
    /\ th' = [th EXCEPT ![t].ctr = session_counters[CounterSlot(t)][th[t].sm0],
                        ![t].pc = "count_store"]
    /\ UNCHANGED <<nm, fib, buffers, orig, next_frames, session_counters,
                   node_counters, traces, trail, probe>>

\* lines 209-212, vlib_increment_combined_counter: write of the slot
CounterStore(t) ==
    /\ th[t].pc = "count_store"
    /\ session_counters' =
         [session_counters EXCEPT
            ![CounterSlot(t)][th[t].sm0] =
               [packets |-> th[t].ctr.packets + 1,
                bytes |-> th[t].ctr.bytes
                          + vlib_buffer_length_in_chain(buffers[th[t].bi0])]]
    /\ th' = [th EXCEPT ![t].touched = @ \cup {CounterSlot(t)},
                        ![t].pc = "trace0"]
    /\ trail' = Step(th[t].bi0, "count")
    /\ UNCHANGED <<nm, fib, buffers, orig, next_frames, node_counters, traces, probe>>

\* lines 214-228: trace record, running total, verify the speculative enqueue
Trace0(t) ==
    /\ th[t].pc = "trace0"
    /\ LET bi == th[t].bi0
           next0 == th[t].next0
       IN  /\ traces' = IF th[t].node_trace /\ buffers[bi].traced
                        THEN [traces EXCEPT
                                ![t] = Append(@, [sw_if_index |-> buffers[bi].sw_if_index_rx,
                                                  next_index |-> next0])]
                        ELSE traces
           /\ th' = [th EXCEPT
                       ![t].pkts_processed =
                          @ + (IF next0 # NAT66_IN2OUT_NEXT_DROP THEN 1 ELSE 0),
                       ![t].next_index = next0,
                       ![t].pc = "loop"]
           /\ next_frames' =
                IF next0 # th[t].next_index
                THEN [next_frames EXCEPT
                        ![t][th[t].next_index] = SubSeq(@, 1, Len(@) - 1),
                        ![t][next0] = Append(@, bi)]
                ELSE next_frames
           /\ trail' = Step(bi, "enqueue")
    /\ UNCHANGED <<nm, fib, buffers, orig, session_counters, node_counters, probe>>

\* faulty variant: the whole frame is reported as processed
BatchTotalAll(t) == Len(th[t].frame)

\* line 235: the increment handed to vlib_node_increment_counter
BatchTotal(t) == th[t].pkts_processed

\* lines 233-236: the batch total, reported once
Finish(t) ==
    /\ th[t].pc = "loop" /\ th[t].from = <<>>
    /\ node_counters' = [node_counters EXCEPT
                           ![t]["IN2OUT_PACKETS"] = @ + BatchTotal(t)]
    /\ th' = [th EXCEPT ![t].pc = "done"]
    /\ UNCHANGED <<nm, fib, buffers, orig, next_frames, session_counters, traces,
                   trail, probe>>

\* the error-drop node: counts each dropped buffer under the error it carries
RECURSIVE CountErrors(_, _)
CountErrors(bis, ctrs) ==
    IF bis = <<>> THEN ctrs
    ELSE CountErrors(Tail(bis),
                     [ctrs EXCEPT ![buffers[Head(bis)].error] = @ + 1])

ErrorDrop(t) ==
    /\ th[t].pc = "done"
    /\ node_counters' = [node_counters EXCEPT
                           ![t] = CountErrors(next_frames[t][NAT66_IN2OUT_NEXT_DROP], @)]
    /\ th' = [th EXCEPT ![t].pc = "dispatched"]
    /\ UNCHANGED <<nm, fib, buffers, orig, next_frames, session_counters, traces,
                   trail, probe>>

Next ==
    \/ \E t \in Workers : ParsePacket(t)
    \/ \E t \in Workers : Classify(t)
    \/ \E t \in Workers : Lookup(t)
    \/ \E t \in Workers : Rewrite(t)
    \/ \E t \in Workers : CounterLoad(t)
    \/ \E t \in Workers : CounterStore(t)
    \/ \E t \in Workers : Trace0(t)
    \/ \E t \in Workers : Finish(t)
    \/ \E t \in Workers : ErrorDrop(t)

Spec == Init /\ [][Next]_vars

SpecMT == InitMT /\ [][Next]_vars

FairSpec == Init /\ [][Next]_vars /\ WF_vars(Next)

-----------------------------------------------------------------------------
(* Specification of the classifier alone: one destination, every small       *)
(* configuration of the two tables, the entries and the interface registry   *)

Roles == { {}, {"IS_INSIDE"}, {"IS_OUTSIDE"}, {"IS_INSIDE", "IS_OUTSIDE"} }

RouteChoices == { <<>>, (DstOut :> 1), (DstOut :> 2) }

InitClassify ==
    /\ InitIdle
    /\ \E r1 \in Roles, r2 \in Roles, ofi \in 0..1 :
         nm = [ interfaces |-> { [sw_if_index |-> k, flags |-> IF k = 1 THEN r1 ELSE r2]
                                 : k \in {j \in 1..2 : (IF j = 1 THEN r1 ELSE r2) # {}} },
                sm |-> <<>>, outside_fib_index |-> ofi ]
    /\ \E t0 \in RouteChoices, t1 \in RouteChoices :
       \E e1 \in {SW_IF_INDEX_NONE, 1, 2}, e2 \in {SW_IF_INDEX_NONE, 1, 2} :
         fib = [ tables |-> [f \in 0..1 |-> IF f = 0 THEN t0 ELSE t1],
                 entries |-> (1 :> e1) @@ (2 :> e2),
                 if_fib |-> (1 :> 0) @@ (2 :> 1) ]
    /\ \E f \in 0..1 :
         probe = [ kind |-> "classify", rx_fib_index |-> f, ip6_addr |-> DstOut,
                   ret |-> 1, lookups |-> <<>>, applied |-> FALSE ]

ProbeClassify ==
    /\ probe.kind = "classify" /\ ~probe.applied
    /\ LET r == nat66_not_translate(probe.rx_fib_index, probe.ip6_addr)
       IN  probe' = [probe EXCEPT !.ret = r.ret, !.lookups = r.lookups,
                                  !.applied = TRUE]
    /\ UNCHANGED <<nm, fib, buffers, orig, th, next_frames, session_counters,
                   node_counters, traces, trail>>

NextClassify == ProbeClassify

SpecClassify == InitClassify /\ [][NextClassify]_vars

-----------------------------------------------------------------------------
(* What the claims speak of *)

RegisteredOutside(sw_if_index) ==
    \E i \in nm.interfaces : i.sw_if_index = sw_if_index /\ "IS_OUTSIDE" \in i.flags

HasRoute(fib_index, addr) ==
    fib_index \in DOMAIN fib.tables /\ addr \in DOMAIN fib.tables[fib_index]

RouteInterface(fib_index, addr) == fib.entries[fib.tables[fib_index][addr]]

\* the two cases in which a destination is bound for an outside interface
MustTranslate(fib_index, addr) ==
    /\ HasRoute(fib_index, addr)
    /\ \/ /\ RouteInterface(fib_index, addr) # SW_IF_INDEX_NONE
          /\ RegisteredOutside(RouteInterface(fib_index, addr))
       \/ /\ RouteInterface(fib_index, addr) = SW_IF_INDEX_NONE
          /\ HasRoute(nm.outside_fib_index, addr)
          /\ RouteInterface(nm.outside_fib_index, addr) # SW_IF_INDEX_NONE
          /\ RegisteredOutside(RouteInterface(nm.outside_fib_index, addr))

\* C5: the classifier answers "translate" exactly when the ingress route
\* resolves to a registered outside interface, or is unresolved and the
\* outside table's route resolves to one; the outside table is consulted
\* only after the ingress table returned a route with no interface.
C5_Classifier ==
    (probe.kind = "classify" /\ probe.applied) =>
        /\ (probe.ret = 0) <=> MustTranslate(probe.rx_fib_index, probe.ip6_addr)
        /\ probe.ret \in {0, 1}
        /\ probe.lookups[1] = probe.rx_fib_index
        /\ Len(probe.lookups) =
             IF /\ HasRoute(probe.rx_fib_index, probe.ip6_addr)
                /\ RouteInterface(probe.rx_fib_index, probe.ip6_addr) = SW_IF_INDEX_NONE
             THEN 2 ELSE 1
        /\ Len(probe.lookups) = 2 => probe.lookups[2] = nm.outside_fib_index

\* a translate decision reached through the outside table
C5_Witness ==
    /\ probe.kind = "classify" /\ probe.applied
    /\ probe.ret = 0 /\ Len(probe.lookups) = 2
    /\ probe.rx_fib_index # nm.outside_fib_index

-----------------------------------------------------------------------------
(* Batch runs: what each packet of a frame should come to *)

Done(t) == th[t].pc \in {"done", "dispatched"}

Frame(t) == th[t].frame

FrameBuffers(t) == {Frame(t)[i] : i \in 1..Len(Frame(t))}

Parses(b) == ~b.malformed

RxFib(b) == fib.if_fib[b.sw_if_index_rx]

MappingOf(b) ==
    {k \in DOMAIN nm.sm : nm.sm[k].l_addr = b.src_address
                          /\ nm.sm[k].fib_index = RxFib(b)}

\* parsed, bound for an outside interface, and its source address is mapped
Translated(b) ==
    Parses(b) /\ MustTranslate(RxFib(b), b.dst_address) /\ MappingOf(b) # {}

TheMapping(b) == nm.sm[CHOOSE k \in MappingOf(b) : TRUE]

HasChecksum(b) ==
    b.protocol \in {IP_PROTOCOL_TCP, IP_PROTOCOL_UDP, IP_PROTOCOL_ICMP6}

InSeq(x, seq) == \E i \in 1..Len(seq) : seq[i] = x

Forwarded(t, bi) ==
    /\ InSeq(bi, next_frames[t][NAT66_IN2OUT_NEXT_IP6_LOOKUP])
    /\ ~InSeq(bi, next_frames[t][NAT66_IN2OUT_NEXT_DROP])

Dropped(t, bi) ==
    /\ InSeq(bi, next_frames[t][NAT66_IN2OUT_NEXT_DROP])
    /\ ~InSeq(bi, next_frames[t][NAT66_IN2OUT_NEXT_IP6_LOOKUP])

\* b is o but for the source address and the words of the transport header in ws
SameExcept(b, o, ws) ==
    /\ [b EXCEPT !.src_address = o.src_address, !.l4 = o.l4] = o
    /\ \A w \in DOMAIN o.l4 : w \notin ws => b.l4[w] = o.l4[w]

\* C1: a parsed packet bound for an outside interface whose source address
\* has a static mapping leaves the node with the mapping's outside address as
\* its source, is forwarded to ip6-lookup, and differs from the packet that
\* came in only in the source address and the TCP/UDP/ICMPv6 checksum word.
C1_TranslatedPacket ==
    \A t \in Workers : Done(t) =>
      \A bi \in FrameBuffers(t) :
        Translated(orig[bi]) =>
          /\ buffers[bi].src_address = TheMapping(orig[bi]).e_addr
          /\ Forwarded(t, bi)
          /\ SameExcept(buffers[bi], orig[bi],
                        IF HasChecksum(orig[bi])
                        THEN {ChecksumWord(orig[bi].protocol)} ELSE {})

\* a translated TCP packet whose address and checksum both changed
C1_Witness ==
    \E t \in Workers : Done(t) /\
      \E bi \in FrameBuffers(t) :
        /\ Translated(orig[bi]) /\ orig[bi].protocol = IP_PROTOCOL_TCP
        /\ buffers[bi].src_address # orig[bi].src_address
        /\ buffers[bi].l4 # orig[bi].l4

\* C3: a parsed packet that is not translated (no ingress route, egress
\* interface not registered outside, or no mapping for its source) is
\* forwarded, is byte for byte what came in, and is never counted per mapping.
C3_Untranslated ==
    \A t \in Workers : Done(t) =>
      \A bi \in FrameBuffers(t) :
        (Parses(orig[bi]) /\ ~Translated(orig[bi])) =>
          /\ Forwarded(t, bi)
          /\ buffers[bi] = orig[bi]
          /\ ~InSeq("count", trail[bi])
          /\ (\A b2 \in FrameBuffers(t) : ~Translated(orig[b2]))
                => \A k \in DOMAIN nm.sm :
                     session_counters[t][k] = [packets |-> 0, bytes |-> 0]

\* an outside-bound packet without mapping and a packet without route, done
C3_Witness ==
    \E t \in Workers : Done(t) /\
      \E bi \in FrameBuffers(t), b2 \in FrameBuffers(t) :
        /\ Parses(orig[bi]) /\ MustTranslate(RxFib(orig[bi]), orig[bi].dst_address)
        /\ MappingOf(orig[bi]) = {}
        /\ Parses(orig[b2]) /\ ~HasRoute(RxFib(orig[b2]), orig[b2].dst_address)

Malformed(t) == {bi \in FrameBuffers(t) : ~Parses(orig[bi])}

\* C4: a packet whose header parse fails is dropped, nothing but the parse
\* and the enqueue is performed on it (no classifier, no mapping lookup, no
\* rewrite, no per-mapping count), and the error counter grows by one for it.
C4_ParseError ==
    \A t \in Workers :
      /\ \A bi \in Malformed(t) :
           /\ \A i \in 1..Len(trail[bi]) : trail[bi][i] \in {"parse", "enqueue"}
           /\ InSeq("enqueue", trail[bi]) =>
                /\ Dropped(t, bi)
                /\ buffers[bi] = [orig[bi] EXCEPT !.error = "UNKNOWN"]
      /\ node_counters[t]["UNKNOWN"] =
           IF th[t].pc = "dispatched" THEN Cardinality(Malformed(t)) ELSE 0
      /\ node_counters[t]["NO_TRANSLATION"] = 0

\* a frame with a malformed packet, after the drop node has counted it
C4_Witness ==
    \E t \in Workers :
      /\ th[t].pc = "dispatched" /\ Malformed(t) # {}
      /\ node_counters[t]["UNKNOWN"] >= 1

\* the buffers of seq that satisfy / do not satisfy Parses, in order
RECURSIVE Keep(_, _)
Keep(seq, good) ==
    IF seq = <<>> THEN <<>>
    ELSE IF Parses(orig[Head(seq)]) = good
         THEN <<Head(seq)>> \o Keep(Tail(seq), good)
         ELSE Keep(Tail(seq), good)

Times(x, seq) == Cardinality({i \in 1..Len(seq) : seq[i] = x})

OutputsOK(t) ==
    /\ th[t].from = <<>>
    /\ next_frames[t][NAT66_IN2OUT_NEXT_IP6_LOOKUP] = Keep(Frame(t), TRUE)
    /\ next_frames[t][NAT66_IN2OUT_NEXT_DROP] = Keep(Frame(t), FALSE)
    /\ \A bi \in FrameBuffers(t) :
         /\ Times("parse", trail[bi]) = 1
         /\ Times("enqueue", trail[bi]) = 1
         /\ trail[bi][Len(trail[bi])] = "enqueue"

AllDone == \A t \in Workers : Done(t)

\* C6: the loop over a frame of N packets ends; then every packet has been
\* evaluated once and sits once in the frame of its disposition, the frames
\* keep the input order, and packets after a dropped one are processed too.
C6_Batch ==
    /\ <>AllDone
    /\ [](\A t \in Workers :
            /\ Done(t) => OutputsOK(t)
            /\ \A bi \in FrameBuffers(t) : Times("parse", trail[bi]) <= 1)

\* a finished frame in which a malformed packet precedes a translated one
C6_Witness ==
    \E t \in Workers : Done(t) /\ OutputsOK(t) /\
      \E i \in 1..Len(Frame(t)), j \in 1..Len(Frame(t)) :
        /\ i < j
        /\ ~Parses(orig[Frame(t)[i]])
        /\ Translated(orig[Frame(t)[j]])

RECURSIVE ExpectedCounter(_, _)
ExpectedCounter(seq, k) ==
    IF seq = <<>> THEN [packets |-> 0, bytes |-> 0]
    ELSE LET r == ExpectedCounter(Tail(seq), k)
             o == orig[Head(seq)]
         IN  IF Translated(o) /\ k \in MappingOf(o)
             THEN [packets |-> r.packets + 1, bytes |-> r.bytes + o.length]
             ELSE r

\* C7: the packets-processed counter grows once, at the end of the batch, by
\* the number of packets not dropped; each mapping's counters grow by one
\* packet and the packet's length for each packet translated under it.
C7_Counters ==
    \A t \in Workers :
      /\ node_counters[t]["IN2OUT_PACKETS"] =
           IF Done(t) THEN Len(Keep(Frame(t), TRUE)) ELSE 0
      /\ Done(t) =>
           /\ Len(next_frames[t][NAT66_IN2OUT_NEXT_IP6_LOOKUP])
                = node_counters[t]["IN2OUT_PACKETS"]
           /\ \A k \in DOMAIN nm.sm :
                session_counters[t][k] = ExpectedCounter(Frame(t), k)

\* a finished frame with a dropped, a translated and an untranslated packet
C7_Witness ==
    \E t \in Workers :
      /\ Done(t)
      /\ Malformed(t) # {}
      /\ \E k \in DOMAIN nm.sm : session_counters[t][k].packets >= 1
      /\ node_counters[t]["IN2OUT_PACKETS"] >= 1

\* C9: a translated packet of a protocol other than TCP, UDP and ICMPv6 has
\* its source address rewritten and is counted under its mapping, and the
\* source address is the only field of the packet that changes.
C9_OtherProtocol ==
    \A t \in Workers : Done(t) =>
      \A bi \in FrameBuffers(t) :
        (Translated(orig[bi]) /\ ~HasChecksum(orig[bi])) =>
          /\ buffers[bi] =
               [orig[bi] EXCEPT !.src_address = TheMapping(orig[bi]).e_addr]
          /\ Times("count", trail[bi]) = 1
          /\ ~InSeq("csum", trail[bi])

\* a translated packet of another protocol, rewritten and counted
C9_Witness ==
    \E t \in Workers : Done(t) /\
      \E bi \in FrameBuffers(t) :
        /\ Translated(orig[bi]) /\ ~HasChecksum(orig[bi])
        /\ buffers[bi].src_address # orig[bi].src_address
        /\ InSeq("count", trail[bi])

-----------------------------------------------------------------------------
(* The rewrite alone *)

Rewritten == probe.kind = "rewrite" /\ probe.applied

\* C2: for a TCP, UDP or ICMPv6 packet whose stored checksum is the valid one
\* for its source address, the checksum stored after the rewrite equals the
\* checksum computed from scratch over the rewritten packet.
C2_RecomputedEqual ==
    (Rewritten /\ StoredChecksum(probe.before) = FromScratch(probe.before))
        => StoredChecksum(probe.after) = FromScratch(probe.after)

\* C8: rewriting with a mapping whose outside address is the packet's source
\* address leaves the source address and the stored checksum as they were.
C8_SameAddress ==
    (Rewritten /\ probe.sm0.e_addr = probe.before.src_address)
        => /\ probe.after.src_address = probe.before.src_address
           /\ StoredChecksum(probe.after) = StoredChecksum(probe.before)
           /\ probe.after = probe.before

\* the same-address rewrite of an all-ones checksum under a carrying address
C8_Witness ==
    /\ Rewritten /\ probe.sm0.e_addr = probe.before.src_address
    /\ StoredChecksum(probe.before) = 65535
    /\ probe.before.src_address[1] = AllOnes
    /\ probe.before.src_address[2] = <<1, 0, 0, 0>>

-----------------------------------------------------------------------------
(* Concurrent batches *)

\* what a packet comes to when the node processes it alone
SeqPacket(o) ==
    IF ~Parses(o)
    THEN [b |-> [o EXCEPT !.error = "UNKNOWN"], next |-> NAT66_IN2OUT_NEXT_DROP]
    ELSE IF Translated(o)
         THEN [b |-> PacketAddr(PacketCsum(o, o.protocol, TheMapping(o)),
                                TheMapping(o)),
               next |-> NAT66_IN2OUT_NEXT_IP6_LOOKUP]
         ELSE [b |-> o, next |-> NAT66_IN2OUT_NEXT_IP6_LOOKUP]

RECURSIVE SumSlots(_, _)
SumSlots(W, k) ==
    IF W = {} THEN [packets |-> 0, bytes |-> 0]
    ELSE LET t == CHOOSE x \in W : TRUE
             r == SumSlots(W \ {t}, k)
         IN  [packets |-> r.packets + session_counters[t][k].packets,
              bytes |-> r.bytes + session_counters[t][k].bytes]

RECURSIVE SumExpected(_, _)
SumExpected(W, k) ==
    IF W = {} THEN [packets |-> 0, bytes |-> 0]
    ELSE LET t == CHOOSE x \in W : TRUE
             r == SumExpected(W \ {t}, k)
             e == ExpectedCounter(Frame(t), k)
         IN  [packets |-> r.packets + e.packets, bytes |-> r.bytes + e.bytes]

\* C10: workers running their batches concurrently write only their own
\* counter slot, and when all are done every packet and disposition is what
\* a run of the batches one after another gives, as are the per-mapping totals.
C10_Concurrent ==
    /\ \A t \in Workers : th[t].touched \subseteq {t}
    /\ AllDone =>
         /\ \A t \in Workers : \A bi \in FrameBuffers(t) :
              /\ buffers[bi] = SeqPacket(orig[bi]).b
              /\ IF SeqPacket(orig[bi]).next = NAT66_IN2OUT_NEXT_DROP
                 THEN Dropped(t, bi) ELSE Forwarded(t, bi)
         /\ \A k \in DOMAIN nm.sm : SumSlots(Workers, k) = SumExpected(Workers, k)
         /\ \A t \in Workers : \A k \in DOMAIN nm.sm :
              session_counters[t][k] = ExpectedCounter(Frame(t), k)

\* two workers, both done, each having translated under the same mapping
C10_Witness ==
    /\ Cardinality(Workers) = 2 /\ AllDone
    /\ \A t \in Workers : session_counters[t][0].packets >= 1

====
